---- MODULE Spec2Model ----
(***************************************************************************)
(* AMDNet_EFFU backbone (src/amdnet_effu.py): the constructor's argument   *)
(* checks and block wiring, the hard-wired forward graph on tensor shapes, *)
(* the input divisibility check and the train() mode switch.               *)
(*                                                                         *)
(* Python tuples and ModuleLists are functions over 0..n-1, so that every  *)
(* index below is the index the source writes.  A tensor is its shape      *)
(* [c, h, w]; the batch dimension is carried through unchanged by every    *)
(* operation of the graph and is left out.                                 *)
(***************************************************************************)
EXTENDS Integers, Sequences, FiniteSets, TLC

VARIABLES
    args,      \* arguments of the last AMDNet_EFFU(...) call
    ctor,      \* how that call ended: [exc, what]
    net,       \* the constructed object (NoObject when there is none)
    eval_mode, \* the modules of the tree whose .training flag is False
    x,         \* the input of the last forward() call, [c, h, w]
    fwd,       \* how that call ended: [exc, ops, env, outs]
    last_mode  \* the argument of the last train() call ("none" before the first)

vars == <<args, ctor, net, eval_mode, x, fwd, last_mode>>

----------------------------------------------------------------------------
(* Bounds of the model *)

MaxSize == 32            \* input heights and widths are 1..MaxSize
MaxStages == 5           \* num_stages is 1..MaxStages where the stage count varies freely
MaxConvs == 2            \* entries of enc_num_convs / dec_num_convs are 1..MaxConvs
MaxDilation == 2         \* entries of enc_dilations / dec_dilations are 1..MaxDilation

(* Program constants *)

DefaultStages == 5       \* num_stages=5
DefaultInChannels == 3   \* in_channels=3
DefaultBaseChannels == 64 \* base_channels=64
DecNumConvs == 2         \* decoder BasicConvBlock(num_convs=2)
DecDilation == 1         \* decoder BasicConvBlock(dilation=1)
DecStride == 1           \* decoder BasicConvBlock(stride=1)

----------------------------------------------------------------------------
(* Python values *)

Len0(t) == Cardinality(DOMAIN t)
Tuple(n, v) == [i \in 0..(n - 1) |-> v]
Tuples(n, S) == [0..(n - 1) -> S]

RECURSIVE Pow2(_)
Pow2(n) == IF n <= 0 THEN 1 ELSE 2 * Pow2(n - 1)

\* an argument that may be None, a str, a dict or something else:
\* its type and its truth value (bool(v)) are all the constructor looks at
PyNone == [type |-> "NoneType", truthy |-> FALSE]
PyVal(t, b) == [type |-> t, truthy |-> b]
IsNone(v) == v.type = "NoneType"
IsStr(v) == v.type = "str"

NoExc == [exc |-> "none", what |-> ""]
Raise(e, w) == [exc |-> e, what |-> w]

----------------------------------------------------------------------------
(* BasicConvBlock.__init__ *)

\* the layers mmcv's ConvModule builds for one conv + norm + activation step
ConvModule(in_channels, out_channels, kernel_size, stride, dilation, padding) ==
    [in_channels |-> in_channels, out_channels |-> out_channels,
     kernel_size |-> kernel_size, stride |-> stride,
     dilation |-> dilation, padding |-> padding]

BasicConvBlock(in_channels, out_channels, num_convs, stride, dilation) ==
    [convs |-> [i \in 0..(num_convs - 1) |->
        ConvModule(IF i = 0 THEN in_channels ELSE out_channels,
                   out_channels,
                   3,
                   IF i = 0 THEN stride ELSE 1,
                   IF i = 0 THEN 1 ELSE dilation,
                   IF i = 0 THEN 1 ELSE dilation)]]

----------------------------------------------------------------------------
(* AMDNet_EFFU.__init__ *)

NoObject == [alive |-> FALSE]

\* enc_channels = np.array([base_channels * 2**i for i in range(num_stages)])
EncChannels(a) == [i \in 0..(a.num_stages - 1) |-> a.base_channels * Pow2(i)]

\* np.sum(enc_channels[:i])
RECURSIVE NpSumPrefix(_, _)
NpSumPrefix(ch, i) == IF i <= 0 THEN 0 ELSE NpSumPrefix(ch, i - 1) + ch[i - 1]

\* self.effu_cbam: CBAMBlock(np.sum(enc_channels[:i])) for i in range(1, num_stages)
EffuCbam(a) ==
    [k \in 0..(a.num_stages - 2) |-> [channels |-> NpSumPrefix(EncChannels(a), k + 1)]]

\* self.effu_c1: the 1x1 ConvModule for i in range(1, num_stages)
EffuC1(a) ==
    [k \in 0..(a.num_stages - 2) |->
        ConvModule(NpSumPrefix(EncChannels(a), k + 1), EncChannels(a)[k], 1, 1, 1, 0)]

\* EffuC2Loop ported without the "in_channels = base_channels * 2**i" at the
\* end of the loop body: every stage is built for the image's channel count
RECURSIVE EffuC2Loop_StaleInChannels(_, _, _, _)
EffuC2Loop_StaleInChannels(a, i, in_channels, acc) ==
    IF i >= a.num_stages THEN acc
    ELSE EffuC2Loop_StaleInChannels(a, i + 1, in_channels,
            acc @@ (i :> BasicConvBlock(in_channels,
                                        a.base_channels * Pow2(i),
                                        a.enc_num_convs[i],
                                        a.strides[i],
                                        a.enc_dilations[i])))

\* self.effu_c2: the loop over range(num_stages); in_channels is the local
\* that the loop body reads and then overwrites for the next iteration
RECURSIVE EffuC2Loop(_, _, _, _)
EffuC2Loop(a, i, in_channels, acc) ==
    IF i >= a.num_stages THEN acc
    ELSE EffuC2Loop(a, i + 1, a.base_channels * Pow2(i),
            acc @@ (i :> BasicConvBlock(in_channels,
                                        a.base_channels * Pow2(i),
                                        a.enc_num_convs[i],
                                        a.strides[i],
                                        a.enc_dilations[i])))

EffuC2(a) == EffuC2Loop(a, 0, a.in_channels, <<>>)

\* self.decoder: for i in range(num_stages-1)
Decoder(a) ==
    [i \in 0..(a.num_stages - 2) |->
        BasicConvBlock(EncChannels(a)[i] + EncChannels(a)[i + 1],
                       EncChannels(a)[i],
                       DecNumConvs, DecStride, DecDilation)]

\* InitCfgCheck with the type of pretrained looked at before the assert
InitCfgCheck_TypeFirst(a) ==
    IF ~IsStr(a.pretrained) /\ ~IsNone(a.pretrained)
    THEN Raise("TypeError", "pretrained must be a str or None")
    ELSE IF a.init_cfg.truthy /\ a.pretrained.truthy
    THEN Raise("AssertionError", "init_cfg and pretrained")
    ELSE NoExc

\* the pretrained / init_cfg handling at the top of __init__
InitCfgCheck(a) ==
    IF a.init_cfg.truthy /\ a.pretrained.truthy
    THEN Raise("AssertionError", "init_cfg and pretrained")
    ELSE IF IsStr(a.pretrained) THEN NoExc
    ELSE IF IsNone(a.pretrained) THEN NoExc
    ELSE Raise("TypeError", "pretrained must be a str or None")

\* self.init_cfg after that handling
InitCfgOf(a) ==
    IF IsStr(a.pretrained) THEN "Pretrained"
    ELSE IF IsNone(a.init_cfg) THEN "Kaiming+Constant"
    ELSE "given"

\* ArgAsserts with the dec_num_convs assert placed before the enc_num_convs one
ArgAsserts_DecBeforeEnc(a) ==
    IF ~IsNone(a.dcn) THEN Raise("AssertionError", "Not implemented yet.")
    ELSE IF ~IsNone(a.plugins) THEN Raise("AssertionError", "Not implemented yet.")
    ELSE IF Len0(a.strides) # a.num_stages
         THEN Raise("AssertionError", "strides")
    ELSE IF Len0(a.dec_num_convs) # a.num_stages - 1
         THEN Raise("AssertionError", "dec_num_convs")
    ELSE IF Len0(a.enc_num_convs) # a.num_stages
         THEN Raise("AssertionError", "enc_num_convs")
    ELSE IF Len0(a.downsamples) # a.num_stages - 1
         THEN Raise("AssertionError", "downsamples")
    ELSE IF Len0(a.enc_dilations) # a.num_stages
         THEN Raise("AssertionError", "enc_dilations")
    ELSE IF Len0(a.dec_dilations) # a.num_stages - 1
         THEN Raise("AssertionError", "dec_dilations")
    ELSE NoExc

\* the asserts on dcn, plugins and the six sequence lengths, in source order
ArgAsserts(a) ==
    IF ~IsNone(a.dcn) THEN Raise("AssertionError", "Not implemented yet.")
    ELSE IF ~IsNone(a.plugins) THEN Raise("AssertionError", "Not implemented yet.")
    ELSE IF Len0(a.strides) # a.num_stages
         THEN Raise("AssertionError", "strides")
    ELSE IF Len0(a.enc_num_convs) # a.num_stages
         THEN Raise("AssertionError", "enc_num_convs")
    ELSE IF Len0(a.dec_num_convs) # a.num_stages - 1
         THEN Raise("AssertionError", "dec_num_convs")
    ELSE IF Len0(a.downsamples) # a.num_stages - 1
         THEN Raise("AssertionError", "downsamples")
    ELSE IF Len0(a.enc_dilations) # a.num_stages
         THEN Raise("AssertionError", "enc_dilations")
    ELSE IF Len0(a.dec_dilations) # a.num_stages - 1
         THEN Raise("AssertionError", "dec_dilations")
    ELSE NoExc

\* the object once every check has passed
Build(a) ==
    [alive |-> TRUE,
     init_cfg |-> InitCfgOf(a),
     num_stages |-> a.num_stages,
     strides |-> a.strides,
     downsamples |-> a.downsamples,
     norm_eval |-> a.norm_eval,
     norm_cfg |-> a.norm_cfg,
     base_channels |-> a.base_channels,
     effu_cbam |-> EffuCbam(a),
     effu_c1 |-> EffuC1(a),
     effu_c2 |-> EffuC2(a),
     decoder |-> Decoder(a)]

AMDNet_EFFU_init(a) ==
    IF InitCfgCheck(a).exc # "none" THEN [res |-> InitCfgCheck(a), obj |-> NoObject]
    ELSE IF ArgAsserts(a).exc # "none" THEN [res |-> ArgAsserts(a), obj |-> NoObject]
    ELSE [res |-> NoExc, obj |-> Build(a)]

----------------------------------------------------------------------------
(* Shapes through the layers the graph calls *)

Tensor(c, h, w) == [c |-> c, h |-> h, w |-> w]

\* output length of a convolution along one axis
ConvOut(n, m) ==
    ((n + 2 * m.padding - m.dilation * (m.kernel_size - 1) - 1) \div m.stride) + 1

\* nn.MaxPool2d(k, k, ceil_mode=True) along one axis
MaxPoolCeil(n, k) == ((n - 1) \div k) + 1

\* nn.Upsample(scale_factor=k) along one axis
UpsampleOut(n, k) == n * k

\* a call frame of forward(): the exception raised so far (if any), the layer
\* calls made so far, and the local tensors
Frame(exc, ops, env) == [exc |-> exc, ops |-> ops, env |-> env]
Failed(f) == f.exc.exc # "none"
Fail(f, e, w) == [f EXCEPT !.exc = Raise(e, w)]
Op(kind, idx, out) == [kind |-> kind, idx |-> idx, out |-> out]

\* one ConvModule applied to tensor t inside frame f: [f, t]
ApplyConvModule(f, m, t) ==
    IF Failed(f) THEN [f |-> f, t |-> t]
    ELSE IF t.c # m.in_channels
         THEN [f |-> Fail(f, "RuntimeError", "channels"), t |-> t]
    ELSE IF ConvOut(t.h, m) < 1 \/ ConvOut(t.w, m) < 1
         THEN [f |-> Fail(f, "RuntimeError", "output size"), t |-> t]
    ELSE [f |-> f, t |-> Tensor(m.out_channels, ConvOut(t.h, m), ConvOut(t.w, m))]

\* BasicConvBlock.forward: self.convs, an nn.Sequential, applied in order
RECURSIVE ApplyConvs(_, _, _, _)
ApplyConvs(f, convs, i, t) ==
    IF i >= Len0(convs) THEN [f |-> f, t |-> t]
    ELSE LET r == ApplyConvModule(f, convs[i], t)
         IN  ApplyConvs(r.f, convs, i + 1, r.t)

\* a block of kind `kind` (effu_c2 or decoder), index idx, called on t
CallBlock(f, kind, idx, block, t) ==
    LET r == ApplyConvs(f, block.convs, 0, t)
    IN  IF Failed(r.f) THEN r
        ELSE [f |-> [r.f EXCEPT !.ops = Append(@, Op(kind, idx, r.t))], t |-> r.t]

\* self.effu_c1[idx], a Sequential of one 1x1 ConvModule, called on t
CallC1(f, idx, m, t) ==
    LET r == ApplyConvModule(f, m, t)
    IN  IF Failed(r.f) THEN r
        ELSE [f |-> [r.f EXCEPT !.ops = Append(@, Op("effu_c1", idx, r.t))], t |-> r.t]

\* self.effu_cbam[idx] called on t: a gate that rescales t, built for
\* cbam.channels channels
CallCbam(f, idx, cbam, t) ==
    IF Failed(f) THEN [f |-> f, t |-> t]
    ELSE IF t.c # cbam.channels
         THEN [f |-> Fail(f, "RuntimeError", "channels"), t |-> t]
    ELSE [f |-> [f EXCEPT !.ops = Append(@, Op("effu_cbam", idx, t))], t |-> t]

\* self.pool_<k>(t)
CallPool(f, k, t) ==
    LET out == Tensor(t.c, MaxPoolCeil(t.h, k), MaxPoolCeil(t.w, k))
    IN  [f |-> [f EXCEPT !.ops = Append(@, Op("pool", k, out))], t |-> out]

\* self.up_2(t)
CallUp(f, k, t) ==
    LET out == Tensor(t.c, UpsampleOut(t.h, k), UpsampleOut(t.w, k))
    IN  [f |-> [f EXCEPT !.ops = Append(@, Op("up", k, out))], t |-> out]

RECURSIVE SumChannels(_, _)
SumChannels(ts, n) == IF n = 0 THEN 0 ELSE SumChannels(ts, n - 1) + ts[n].c

\* torch.cat(ts, dim=1): every operand must agree on h and w
CallCat(f, ts) ==
    IF Failed(f) THEN [f |-> f, t |-> ts[1]]
    ELSE IF \E i \in 1..Len(ts) : ts[i].h # ts[1].h \/ ts[i].w # ts[1].w
         THEN [f |-> Fail(f, "RuntimeError", "cat sizes"), t |-> ts[1]]
    ELSE LET out == Tensor(SumChannels(ts, Len(ts)), ts[1].h, ts[1].w)
         IN  [f |-> [f EXCEPT !.ops = Append(@, Op("cat", Len(ts), out))], t |-> out]

----------------------------------------------------------------------------
(* AMDNet_EFFU._check_input_divisible *)

\* WholeDownsampleRate with "and" for the "or" of the loop's condition
RECURSIVE WholeDownsampleRate_And(_, _, _)
WholeDownsampleRate_And(self, i, rate) ==
    IF i >= self.num_stages THEN rate
    ELSE WholeDownsampleRate_And(self, i + 1,
            IF self.strides[i] = 2 /\ self.downsamples[i - 1] THEN rate * 2 ELSE rate)

\* the loop "for i in range(1, self.num_stages)" from index i with the rate so far
RECURSIVE WholeDownsampleRate(_, _, _)
WholeDownsampleRate(self, i, rate) ==
    IF i >= self.num_stages THEN rate
    ELSE WholeDownsampleRate(self, i + 1,
            IF self.strides[i] = 2 \/ self.downsamples[i - 1] THEN rate * 2 ELSE rate)

check_input_divisible(self, f, t) ==
    LET whole_downsample_rate == WholeDownsampleRate(self, 1, 1)
    IN  IF (t.h % whole_downsample_rate = 0) /\ (t.w % whole_downsample_rate = 0)
        THEN f
        ELSE Fail(f, "AssertionError", "input size not divisible")

----------------------------------------------------------------------------
(* AMDNet_EFFU.forward: the statements in source order *)

Src(k, name) == [k |-> k, src |-> name]

\* x<i> = self.effu_c2[c2](self.effu_c1[c1](self.effu_cbam[cbam](<pooled srcs>)))
FuseStmt(dst, c2, c1, cbam, srcs) ==
    [kind |-> "fuse", dst |-> dst, c2 |-> c2, c1 |-> c1, cbam |-> cbam, srcs |-> srcs]

\* dec<i> = self.decoder[i](torch.cat([skip, self.up_<k>(below)], dim=1))
DecStmt(dst, i, skip, k, below) ==
    [kind |-> "dec", dst |-> dst, c2 |-> i, c1 |-> i, cbam |-> i,
     srcs |-> <<Src(1, skip), Src(k, below)>>]

\* ForwardBody with x0 pooled by 4, not 8, on its way into x3
ForwardBody_Pool4IntoX3 ==
    << FuseStmt("x0", 0, 0, 0, <<>>),
       FuseStmt("x1", 1, 0, 0, <<Src(2, "x0")>>),
       FuseStmt("x2", 2, 1, 1, <<Src(4, "x0"), Src(2, "x1")>>),
       FuseStmt("x3", 3, 2, 2, <<Src(4, "x0"), Src(4, "x1"), Src(2, "x2")>>),
       FuseStmt("x4", 4, 3, 3, <<Src(16, "x0"), Src(8, "x1"), Src(4, "x2"), Src(2, "x3")>>),
       DecStmt("dec3", 3, "x3", 2, "x4"),
       DecStmt("dec2", 2, "x2", 2, "dec3"),
       DecStmt("dec1", 1, "x1", 2, "dec2"),
       DecStmt("dec0", 0, "x0", 2, "dec1") >>

ForwardBody ==
    << FuseStmt("x0", 0, 0, 0, <<>>),
       FuseStmt("x1", 1, 0, 0, <<Src(2, "x0")>>),
       FuseStmt("x2", 2, 1, 1, <<Src(4, "x0"), Src(2, "x1")>>),
       FuseStmt("x3", 3, 2, 2, <<Src(8, "x0"), Src(4, "x1"), Src(2, "x2")>>),
       FuseStmt("x4", 4, 3, 3, <<Src(16, "x0"), Src(8, "x1"), Src(4, "x2"), Src(2, "x3")>>),
       DecStmt("dec3", 3, "x3", 2, "x4"),
       DecStmt("dec2", 2, "x2", 2, "dec3"),
       DecStmt("dec1", 1, "x1", 2, "dec2"),
       DecStmt("dec0", 0, "x0", 2, "dec1") >>

\* dec_outs = [x4, dec3, dec2, dec1, dec0]
DecOuts == <<"x4", "dec3", "dec2", "dec1", "dec0">>

\* the operands self.pool_<k>(<src>) of a fusion, evaluated left to right: [f, ts]
RECURSIVE PoolSources(_, _, _, _)
PoolSources(f, srcs, i, ts) ==
    IF i > Len(srcs) THEN [f |-> f, ts |-> ts]
    ELSE LET r == CallPool(f, srcs[i].k, f.env[srcs[i].src])
         IN  PoolSources(r.f, srcs, i + 1, Append(ts, r.t))

\* x0 = self.effu_c2[0](x)
ExecFirst(self, f, st) ==
    IF st.c2 \notin DOMAIN self.effu_c2
    THEN Fail(f, "IndexError", "index out of range")
    ELSE
    LET r == CallBlock(f, "effu_c2", st.c2, self.effu_c2[st.c2], f.env["x"])
    IN  IF Failed(r.f) THEN r.f ELSE [r.f EXCEPT !.env = @ @@ (st.dst :> r.t)]

\* a fusion statement: Python evaluates the three callees (the ModuleList
\* subscripts) outermost first, then the argument, then calls innermost first
ExecFuse(self, f, st) ==
    IF st.c2 \notin DOMAIN self.effu_c2 \/ st.c1 \notin DOMAIN self.effu_c1
       \/ st.cbam \notin DOMAIN self.effu_cbam
    THEN Fail(f, "IndexError", "index out of range")
    ELSE LET p == PoolSources(f, st.srcs, 1, <<>>)
             c == IF Len(st.srcs) = 1 THEN [f |-> p.f, t |-> p.ts[1]]
                  ELSE CallCat(p.f, p.ts)
             a == CallCbam(c.f, st.cbam, self.effu_cbam[st.cbam], c.t)
             b == CallC1(a.f, st.c1, self.effu_c1[st.c1], a.t)
             r == CallBlock(b.f, "effu_c2", st.c2, self.effu_c2[st.c2], b.t)
         IN  IF Failed(r.f) THEN r.f ELSE [r.f EXCEPT !.env = @ @@ (st.dst :> r.t)]

\* a decoder statement
ExecDec(self, f, st) ==
    IF st.c2 \notin DOMAIN self.decoder
    THEN Fail(f, "IndexError", "index out of range")
    ELSE LET u == CallUp(f, st.srcs[2].k, f.env[st.srcs[2].src])
             c == CallCat(u.f, <<f.env[st.srcs[1].src], u.t>>)
             r == CallBlock(c.f, "decoder", st.c2, self.decoder[st.c2], c.t)
         IN  IF Failed(r.f) THEN r.f ELSE [r.f EXCEPT !.env = @ @@ (st.dst :> r.t)]

Exec(self, f, st) ==
    IF st.kind = "dec" THEN ExecDec(self, f, st)
    ELSE IF Len(st.srcs) = 0 THEN ExecFirst(self, f, st)
    ELSE ExecFuse(self, f, st)

\* the statements from number pc on; an exception ends the call
RECURSIVE RunBody(_, _, _)
RunBody(self, f, pc) ==
    IF Failed(f) \/ pc > Len(ForwardBody) THEN f
    ELSE RunBody(self, Exec(self, f, ForwardBody[pc]), pc + 1)

\* forward(x): [exc, ops, env, outs]; outs is what the call returns
forward(self, t) ==
    LET f0 == check_input_divisible(self, Frame(NoExc, <<>>, ("x" :> t)), t)
        f  == RunBody(self, f0, 1)
    IN  [exc |-> f.exc, ops |-> f.ops, env |-> f.env,
         outs |-> IF Failed(f) THEN <<>> ELSE [i \in 1..Len(DecOuts) |-> f.env[DecOuts[i]]]]

----------------------------------------------------------------------------
(* The module tree (self.modules()) and AMDNet_EFFU.train *)

Mod(list, i, k, part, cls) == [list |-> list, i |-> i, k |-> k, part |-> part, cls |-> cls]

\* the class build_norm_layer gives for norm_cfg=dict(type=...)
NormClass(norm_cfg) ==
    IF norm_cfg = "BN" THEN "BatchNorm2d"
    ELSE IF norm_cfg = "SyncBN" THEN "SyncBatchNorm"
    ELSE "GroupNorm"

\* isinstance(m, _BatchNorm)
IsBatchNorm(m) == m.cls \in {"BatchNorm2d", "SyncBatchNorm"}

\* a normalization layer of any kind
IsNorm(m) == m.part = "norm"

\* the sub-modules of the ConvModule at position k of block i of a list
ConvModuleParts(self, list, i, k) ==
    {Mod(list, i, k, "ConvModule", "ConvModule"),
     Mod(list, i, k, "conv", "Conv2d"),
     Mod(list, i, k, "activate", "ReLU")}
    \cup (IF self.norm_cfg = "None" THEN {}
          ELSE {Mod(list, i, k, "norm", NormClass(self.norm_cfg))})

BlockParts(self, list, i, block) ==
    {Mod(list, i, -1, "block", "BasicConvBlock")}
    \cup UNION {ConvModuleParts(self, list, i, k) : k \in DOMAIN block.convs}

Modules(self) ==
    IF ~self.alive THEN {}
    ELSE {Mod("self", -1, -1, "self", "AMDNet_EFFU")}
         \cup {Mod("pool", k, -1, "pool", "MaxPool2d") : k \in {2, 4, 8, 16}}
         \cup {Mod("up", k, -1, "up", "Upsample") : k \in {2, 4, 8, 16}}
         \cup {Mod("effu_cbam", i, -1, "block", "CBAMBlock") : i \in DOMAIN self.effu_cbam}
         \cup UNION {ConvModuleParts(self, "effu_c1", i, 0) : i \in DOMAIN self.effu_c1}
         \cup UNION {BlockParts(self, "effu_c2", i, self.effu_c2[i]) : i \in DOMAIN self.effu_c2}
         \cup UNION {BlockParts(self, "decoder", i, self.decoder[i]) : i \in DOMAIN self.decoder}

\* nn.Module.train(mode): every module of the tree gets .training = mode;
\* the result is the set of modules left with .training = False
SuperTrain(self, mode) == IF mode THEN {} ELSE Modules(self)

\* train without the norm_eval branch: nn.Module.train alone
train_NoFreeze(self, mode) == SuperTrain(self, mode)

\* AMDNet_EFFU.train(mode): the modules with .training = False afterwards
train(self, mode) ==
    LET off == SuperTrain(self, mode)
    IN  IF mode /\ self.norm_eval
        THEN off \cup {m \in Modules(self) : IsBatchNorm(m)}
        ELSE off

----------------------------------------------------------------------------
(* Calls *)

NotCalled == [exc |-> "not called", what |-> ""]
NoTensor == Tensor(0, 0, 0)
NoForward == [exc |-> NotCalled, ops |-> <<>>, env |-> <<>>, outs |-> <<>>]

DefaultArgs ==
    [in_channels |-> DefaultInChannels,
     base_channels |-> DefaultBaseChannels,
     num_stages |-> DefaultStages,
     strides |-> Tuple(DefaultStages, 1),
     enc_num_convs |-> Tuple(DefaultStages, 2),
     dec_num_convs |-> Tuple(DefaultStages - 1, 2),
     downsamples |-> Tuple(DefaultStages - 1, TRUE),
     enc_dilations |-> Tuple(DefaultStages, 1),
     dec_dilations |-> Tuple(DefaultStages - 1, 1),
     norm_cfg |-> "BN",
     norm_eval |-> FALSE,
     dcn |-> PyNone,
     plugins |-> PyNone,
     pretrained |-> PyNone,
     init_cfg |-> PyNone]

Init ==
    /\ args = DefaultArgs
    /\ ctor = NotCalled
    /\ net = NoObject
    /\ eval_mode = {}
    /\ x = NoTensor
    /\ fwd = NoForward
    /\ last_mode = "none"

\* net = AMDNet_EFFU(**a); a fresh nn.Module has every .training flag set
Construct(a) ==
    /\ ctor = NotCalled
    /\ LET r == AMDNet_EFFU_init(a)
       IN  /\ args' = a
           /\ ctor' = r.res
           /\ net' = r.obj
    /\ eval_mode' = {}
    /\ UNCHANGED <<x, fwd, last_mode>>

\* net(x) for x of shape (B, in_channels, h, w).  forward() reads the object
\* and writes nothing to it, so one call per object shows every result
Forward(h, w) ==
    /\ net.alive
    /\ fwd = NoForward
    /\ x' = Tensor(args.in_channels, h, w)
    /\ fwd' = forward(net, Tensor(args.in_channels, h, w))
    /\ UNCHANGED <<args, ctor, net, eval_mode, last_mode>>

\* net.train(mode)
Train(mode) ==
    /\ net.alive
    /\ eval_mode' = train(net, mode)
    /\ last_mode' = IF mode THEN "True" ELSE "False"
    /\ UNCHANGED <<args, ctor, net, x, fwd>>

\* the inputs followed: the square ones, and those with one side MaxSize
Inputs ==
    {hw \in (1..MaxSize) \X (1..MaxSize) :
        hw[1] = hw[2] \/ hw[1] = MaxSize \/ hw[2] = MaxSize}

----------------------------------------------------------------------------
(* The calls each specification follows *)

\* tuples of length n over S in which at most one entry differs from d
Varied(n, S, d) ==
    {Tuple(n, d)} \cup {[Tuple(n, d) EXCEPT ![i] = v] : i \in 0..(n - 1), v \in S}

PretrainedValues ==
    {PyNone, PyVal("str", FALSE), PyVal("str", TRUE), PyVal("int", FALSE), PyVal("int", TRUE)}
InitCfgValues == {PyNone, PyVal("dict", FALSE), PyVal("dict", TRUE)}
FlagValues == {PyNone, PyVal("dict", TRUE)}

\* Spec: every way the argument checks can go, for the default stage count
ArgsChecked ==
    {[DefaultArgs EXCEPT !.pretrained = p, !.init_cfg = c, !.dcn = d, !.plugins = g,
                         !.strides = Tuple(l[1], 1),
                         !.enc_num_convs = Tuple(l[2], 2),
                         !.dec_num_convs = Tuple(l[3], 2),
                         !.downsamples = Tuple(l[4], TRUE),
                         !.enc_dilations = Tuple(l[5], 1),
                         !.dec_dilations = Tuple(l[6], 1)] :
        p \in PretrainedValues, c \in InitCfgValues, d \in FlagValues, g \in FlagValues,
        l \in [1..6 -> {DefaultStages - 1, DefaultStages}]}

Next ==
    \/ ctor = NotCalled /\ \E a \in ArgsChecked : Construct(a)
    \/ \E hw \in Inputs : Forward(hw[1], hw[2])
    \/ \E mode \in BOOLEAN : Train(mode)

Spec == Init /\ [][Next]_vars

\* SpecForward: every strides / downsamples setting, for the default stage
\* count, one stage fewer and one stage more
StageCounts == {DefaultStages - 1, DefaultStages, DefaultStages + 1}

ArgsForward(n, s, d) ==
    [DefaultArgs EXCEPT !.num_stages = n,
                        !.strides = s,
                        !.downsamples = d,
                        !.enc_num_convs = Tuple(n, 2),
                        !.dec_num_convs = Tuple(n - 1, 2),
                        !.enc_dilations = Tuple(n, 1),
                        !.dec_dilations = Tuple(n - 1, 1)]

NextForward ==
    \/ /\ ctor = NotCalled
       /\ \E n \in StageCounts :
            \E s \in Tuples(n, {1, 2}), d \in Tuples(n - 1, BOOLEAN) :
                Construct(ArgsForward(n, s, d))
    \/ \E hw \in Inputs : Forward(hw[1], hw[2])

SpecForward == Init /\ [][NextForward]_vars

\* SpecBuild: the block lists for every stage count, channel width and
\* per-stage conv count, stride and dilation
ArgsBuild(n, ic, bc, s, en, ed, dn, dd) ==
    [DefaultArgs EXCEPT !.num_stages = n,
                        !.in_channels = ic,
                        !.base_channels = bc,
                        !.strides = s,
                        !.enc_num_convs = en,
                        !.enc_dilations = ed,
                        !.dec_num_convs = Tuple(n - 1, dn),
                        !.dec_dilations = Tuple(n - 1, dd),
                        !.downsamples = Tuple(n - 1, TRUE)]

NextBuild ==
    /\ ctor = NotCalled
    /\ \E n \in 1..MaxStages :
        \E ic \in {1, DefaultInChannels}, bc \in {1, DefaultBaseChannels},
           s \in Varied(n, {1, 2}, 1),
           en \in Varied(n, 1..MaxConvs, 2),
           ed \in Varied(n, 1..MaxDilation, 1),
           dn \in 1..MaxConvs, dd \in 1..MaxDilation :
            Construct(ArgsBuild(n, ic, bc, s, en, ed, dn, dd))

SpecBuild == Init /\ [][NextBuild]_vars

\* SpecTrain: every norm_eval / norm_cfg setting, then any train() calls
NormCfgs == {"BN", "SyncBN", "GN", "None"}

ArgsTrain(n, ne, nc, en) ==
    [DefaultArgs EXCEPT !.num_stages = n,
                        !.norm_eval = ne,
                        !.norm_cfg = nc,
                        !.strides = Tuple(n, 1),
                        !.enc_num_convs = en,
                        !.enc_dilations = Tuple(n, 1),
                        !.dec_num_convs = Tuple(n - 1, 2),
                        !.dec_dilations = Tuple(n - 1, 1),
                        !.downsamples = Tuple(n - 1, TRUE)]

NextTrain ==
    \/ /\ ctor = NotCalled
       /\ \E n \in 1..MaxStages :
            \E ne \in BOOLEAN, nc \in NormCfgs, en \in Varied(n, 1..MaxConvs, 2) :
                Construct(ArgsTrain(n, ne, nc, en))
    \/ \E mode \in BOOLEAN : Train(mode)

SpecTrain == Init /\ [][NextTrain]_vars

----------------------------------------------------------------------------
(* Properties *)

Constructed == ctor = NoExc /\ net.alive
ForwardCalled == fwd # NoForward
AllEqual(t, v) == \A i \in DOMAIN t : t[i] = v

\* the stages i in 1..num_stages-1 that count towards the downsample factor
QualifyingStages(a) ==
    {i \in 1..(a.num_stages - 1) : a.strides[i] = 2 \/ a.downsamples[i - 1]}
DownsampleFactor(a) == Pow2(Cardinality(QualifyingStages(a)))
Divisible(a, t) == t.h % DownsampleFactor(a) = 0 /\ t.w % DownsampleFactor(a) = 0

OpsOfKind(kind) == SelectSeq(fwd.ops, LAMBDA o : o.kind = kind)
OutChannels == [i \in 1..Len(fwd.outs) |-> fwd.outs[i].c]
OutSizes == [i \in 1..Len(fwd.outs) |-> <<fwd.outs[i].h, fwd.outs[i].w>>]

\* C1: with num_stages = 5, every input whose height and width are divisible
\* by the cumulative downsample factor goes through forward() without error
\* and comes back as 5 tensors of base_channels * 16, 8, 4, 2, 1 channels.
C1_ForwardSucceeds ==
    (Constructed /\ ForwardCalled /\ args.num_stages = 5 /\ Divisible(args, x))
    => /\ fwd.exc = NoExc
       /\ OutChannels = [i \in 1..5 |-> args.base_channels * Pow2(5 - i)]

\* C2: an input whose height or width is not divisible by the factor
\* 2^(number of qualifying stages) fails with an AssertionError before any
\* layer has run and returns nothing; no other input fails that way.
C2_IndivisibleInputRejected ==
    (Constructed /\ ForwardCalled)
    => /\ ~Divisible(args, x)
          => (fwd.exc.exc = "AssertionError" /\ fwd.ops = <<>> /\ fwd.outs = <<>>)
       /\ Divisible(args, x) => fwd.exc.exc # "AssertionError"

C2_Witness ==
    /\ Constructed /\ ForwardCalled
    /\ DownsampleFactor(args) = 4
    /\ args.strides[1] = 2 /\ ~args.downsamples[0] /\ ~args.downsamples[1]
    /\ x.h % 4 = 0 /\ x.w % 4 # 0
    /\ fwd.exc.exc = "AssertionError"

\* C5: for any stage count N (default strides and pooling flags, input
\* divisible by 2^(N-1)) forward() runs N encoder blocks and N-1 decoder
\* blocks and completes without error.
C5_StageCountConfigurable ==
    (Constructed /\ ForwardCalled /\ AllEqual(args.strides, 1)
        /\ AllEqual(args.downsamples, TRUE) /\ Divisible(args, x))
    => /\ fwd.exc = NoExc
       /\ Len(OpsOfKind("effu_c2")) = args.num_stages
       /\ Len(OpsOfKind("decoder")) = args.num_stages - 1

\* C7: with 5 stages, strides 1 and pooling on everywhere, an input of
\* H x W with 16 | H and 16 | W returns maps of H/16, H/8, H/4, H/2, H by
\* W/16, ..., W, and the source level j of the fusion at level i is pooled
\* by 2^(i-j) to H/2^i x W/2^i.
ExpectedPools ==
    [n \in 1..10 |->
        LET i == IF n = 1 THEN 1 ELSE IF n <= 3 THEN 2 ELSE IF n <= 6 THEN 3 ELSE 4
            j == n - 1 - ((i * (i - 1)) \div 2)
        IN  Op("pool", Pow2(i - j),
               Tensor(args.base_channels * Pow2(j), x.h \div Pow2(i), x.w \div Pow2(i)))]

C7_SpatialSizes ==
    (Constructed /\ ForwardCalled /\ args.num_stages = 5 /\ AllEqual(args.strides, 1)
        /\ AllEqual(args.downsamples, TRUE) /\ x.h % 16 = 0 /\ x.w % 16 = 0)
    => /\ fwd.exc = NoExc
       /\ OutSizes = [i \in 1..5 |-> <<x.h \div Pow2(5 - i), x.w \div Pow2(5 - i)>>]
       /\ OpsOfKind("pool") = ExpectedPools

C7_Witness ==
    /\ Constructed /\ ForwardCalled /\ args.num_stages = 5 /\ AllEqual(args.strides, 1)
    /\ AllEqual(args.downsamples, TRUE) /\ x.h = 32 /\ x.w = 16
    /\ fwd.exc = NoExc /\ Len(fwd.outs) = 5

\* C8: max-pooling runs before encoder stage i only when downsamples[i-1] is
\* set and strides[i] is not 2, so a stage never shrinks the map of the stage
\* before it by more than 2.
LocalName(i) == IF i = 0 THEN "x0" ELSE IF i = 1 THEN "x1" ELSE IF i = 2 THEN "x2"
                ELSE IF i = 3 THEN "x3" ELSE "x4"
\* the pool calls made while computing x<i>: after effu_c2[i-1] has returned
PoolsBeforeStage(i) ==
    {n \in 1..Len(fwd.ops) :
        /\ fwd.ops[n].kind = "pool"
        /\ Cardinality({m \in 1..n : fwd.ops[m].kind = "effu_c2"}) = i}

C8_PoolOnlyWhenFlagged ==
    (Constructed /\ ForwardCalled)
    => \A i \in 1..(args.num_stages - 1) :
          /\ PoolsBeforeStage(i) # {} => (args.downsamples[i - 1] /\ args.strides[i] # 2)
          /\ (LocalName(i) \in DOMAIN fwd.env /\ i <= 4)
                => 2 * fwd.env[LocalName(i)].h >= fwd.env[LocalName(i - 1)].h

CtorCalled == ctor # NotCalled
NoModel == net = NoObject

\* C4 as stated: a pretrained path together with an init_cfg fails with an
\* AssertionError, and a pretrained that is neither a str nor None fails with
\* a TypeError whatever the other arguments are.
C4_PretrainedErrors ==
    CtorCalled
    => /\ (IsStr(args.pretrained) /\ args.pretrained.truthy /\ args.init_cfg.truthy)
            => (ctor.exc = "AssertionError" /\ NoModel)
       /\ (~IsStr(args.pretrained) /\ ~IsNone(args.pretrained))
            => (ctor.exc = "TypeError" /\ NoModel)

\* C4 amended: a non-empty init_cfg together with any truthy pretrained (a
\* path, or a value of another type) fails with the AssertionError; a
\* pretrained that is neither a str nor None fails with the TypeError in the
\* remaining cases, where init_cfg is None or empty or pretrained is falsy.
C4_PretrainedErrorsInOrder ==
    CtorCalled
    => /\ (args.pretrained.truthy /\ args.init_cfg.truthy)
            => (ctor = Raise("AssertionError", "init_cfg and pretrained") /\ NoModel)
       /\ (~(args.pretrained.truthy /\ args.init_cfg.truthy)
             /\ ~IsStr(args.pretrained) /\ ~IsNone(args.pretrained))
            => (ctor.exc = "TypeError" /\ NoModel)

C4_Witness ==
    /\ CtorCalled
    /\ args.pretrained = PyVal("int", TRUE) /\ args.init_cfg = PyVal("dict", TRUE)
    /\ ctor.exc = "AssertionError" /\ NoModel

\* the six sequences in the order of the claim, with the length each must have
SequenceNames ==
    <<"strides", "enc_num_convs", "dec_num_convs", "downsamples", "enc_dilations",
      "dec_dilations">>
LengthMismatch(a, n) ==
    IF n = 1 THEN Len0(a.strides) # a.num_stages
    ELSE IF n = 2 THEN Len0(a.enc_num_convs) # a.num_stages
    ELSE IF n = 3 THEN Len0(a.dec_num_convs) # a.num_stages - 1
    ELSE IF n = 4 THEN Len0(a.downsamples) # a.num_stages - 1
    ELSE IF n = 5 THEN Len0(a.enc_dilations) # a.num_stages
    ELSE Len0(a.dec_dilations) # a.num_stages - 1
Mismatches(a) == {n \in 1..6 : LengthMismatch(a, n)}
FirstMismatch(a) == CHOOSE n \in Mismatches(a) : \A m \in Mismatches(a) : n <= m
EarlierChecksPass(a) ==
    /\ ~(a.init_cfg.truthy /\ a.pretrained.truthy)
    /\ IsStr(a.pretrained) \/ IsNone(a.pretrained)
    /\ IsNone(a.dcn) /\ IsNone(a.plugins)

\* C10 as stated: construction succeeds only with all six lengths right and
\* dcn, plugins None; any wrong length fails with an AssertionError naming
\* the first offending sequence, and nothing is built.
C10_LengthAsserts ==
    CtorCalled
    => /\ ctor = NoExc
            => (Mismatches(args) = {} /\ IsNone(args.dcn) /\ IsNone(args.plugins))
       /\ Mismatches(args) # {}
            => (ctor = Raise("AssertionError", SequenceNames[FirstMismatch(args)])
                /\ NoModel)

\* C10 amended: as stated, except that the AssertionError naming the first
\* offending sequence is what a wrong length gives once the checks that run
\* before it (init_cfg with pretrained, the type of pretrained, dcn, plugins)
\* have passed; when one of those fails, its error is raised instead, and
\* nothing is built either way.
C10_LengthAssertsAfterEarlierChecks ==
    CtorCalled
    => /\ ctor = NoExc
            => (Mismatches(args) = {} /\ IsNone(args.dcn) /\ IsNone(args.plugins))
       /\ Mismatches(args) # {} => (ctor # NoExc /\ NoModel)
       /\ (Mismatches(args) # {} /\ EarlierChecksPass(args))
            => ctor = Raise("AssertionError", SequenceNames[FirstMismatch(args)])

C10_Witness ==
    /\ CtorCalled /\ EarlierChecksPass(args)
    /\ Mismatches(args) = {2, 3, 6}
    /\ ctor = Raise("AssertionError", "enc_num_convs") /\ NoModel

\* C6: N-1 attention blocks, N-1 fusion convolutions, N-1 decoder blocks and
\* N encoder blocks are built; fusion i takes base_channels * (2^i - 1)
\* channels and gives what encoder block i takes; encoder block 0 takes
\* in_channels; decoder block i takes base_channels * (2^i + 2^(i+1)) and
\* gives base_channels * 2^i.
FirstConv(block) == block.convs[0]
LastConv(block) == block.convs[Len0(block.convs) - 1]

C6_BlockCountsAndWidths ==
    Constructed
    => LET n == args.num_stages
           b == args.base_channels
       IN  /\ Len0(net.effu_cbam) = n - 1 /\ Len0(net.effu_c1) = n - 1
           /\ Len0(net.decoder) = n - 1 /\ Len0(net.effu_c2) = n
           /\ FirstConv(net.effu_c2[0]).in_channels = args.in_channels
           /\ \A i \in 1..(n - 1) :
                 /\ net.effu_cbam[i - 1].channels = b * (Pow2(i) - 1)
                 /\ net.effu_c1[i - 1].in_channels = b * (Pow2(i) - 1)
                 /\ net.effu_c1[i - 1].out_channels = FirstConv(net.effu_c2[i]).in_channels
           /\ \A i \in 0..(n - 2) :
                 /\ FirstConv(net.decoder[i]).in_channels = b * Pow2(i) + b * Pow2(i + 1)
                 /\ LastConv(net.decoder[i]).out_channels = b * Pow2(i)

C6_Witness ==
    /\ Constructed /\ args.num_stages = 4
    /\ args.in_channels = 3 /\ args.base_channels = 1
    /\ net.effu_c1[2].in_channels = 7 /\ FirstConv(net.effu_c2[3]).in_channels = 4

\* C9: decoder stage i has dec_num_convs[i] convolutions with dilation
\* dec_dilations[i] on all but the first, as encoder stage i has
\* enc_num_convs[i] convolutions, stride strides[i] on the first only and
\* dilation enc_dilations[i] on all but the first.
BlockBuiltWith(block, num_convs, stride, dilation) ==
    /\ Len0(block.convs) = num_convs
    /\ \A k \in DOMAIN block.convs :
          /\ block.convs[k].stride = (IF k = 0 THEN stride ELSE 1)
          /\ block.convs[k].dilation = (IF k = 0 THEN 1 ELSE dilation)

C9_PerStageParameters ==
    Constructed
    => /\ \A i \in DOMAIN net.effu_c2 :
             BlockBuiltWith(net.effu_c2[i], args.enc_num_convs[i], args.strides[i],
                            args.enc_dilations[i])
       /\ \A i \in DOMAIN net.decoder :
             BlockBuiltWith(net.decoder[i], args.dec_num_convs[i], 1,
                            args.dec_dilations[i])

\* C3 as stated: after train(True) on a model built with norm_eval=True every
\* normalization layer is in evaluation mode and every other module in
\* training mode; with norm_eval=False every module is in training mode.
TrainingFlag(m) == m \notin eval_mode

C3_NormLayersFrozen ==
    (Constructed /\ last_mode = "True")
    => \A m \in Modules(net) :
          TrainingFlag(m) = ~(args.norm_eval /\ IsNorm(m))

\* C3 amended: the layers put in evaluation mode are the batch-normalization
\* layers (BatchNorm, SyncBatchNorm); every other module, a normalization
\* layer of another kind included, is in training mode.
C3_BatchNormLayersFrozen ==
    (Constructed /\ last_mode = "True")
    => \A m \in Modules(net) :
          TrainingFlag(m) = ~(args.norm_eval /\ m.cls \in {"BatchNorm2d", "SyncBatchNorm"})

C3_Witness ==
    /\ Constructed /\ last_mode = "True" /\ args.norm_eval /\ args.norm_cfg = "BN"
    /\ \E m \in Modules(net) : IsNorm(m) /\ ~TrainingFlag(m)
    /\ \E m \in Modules(net) : ~IsNorm(m) /\ TrainingFlag(m)

====
